---------------------------- MODULE Spec2Model ----------------------------
(***************************************************************************)
(* Model of the hydrological core of the terrain generator:                *)
(*   lakes.rs   : generate_lakes, expand_lake, merge_lakes                 *)
(*   erosion.rs : get_flux, fill_sinks, smooth, erode                      *)
(* Cell ids are 0-based as in the source.  An Option<usize> is modelled as *)
(* a set: {} is None and {k} is Some(k).                                   *)
(***************************************************************************)
EXTENDS Integers, Sequences, FiniteSets, Bags, TLC

VARIABLES
    voronoi,            \* the mesh: voronoi.adjacent, voronoi.border
    heights,            \* per-cell heights
    sea_level,
    lake_associations,  \* generate_lakes: Vec<Option<usize>>
    lake_builders,      \* generate_lakes: Vec<LakeBuilder>
    lake_id,            \* the lake expand_lake is growing
    i,                  \* loop index of the running function
    pc,                 \* position of the running function
    lakes,              \* generate_lakes: the returned Vec<Lake>
    flux,               \* get_flux: the flux vector
    sorted,             \* get_flux: cells sorted by height
    snapshot,           \* smooth: heights.clone() the loop iterates over
    scale,              \* smooth: common denominator of heights and snapshot
    new_heights,        \* erode: the mapped heights; fill_sinks: new_heights
    changed             \* fill_sinks: the flag of the while loop

vars == <<voronoi, heights, sea_level, lake_associations, lake_builders,
          lake_id, i, pc, lakes, flux, sorted, snapshot, scale, new_heights,
          changed>>

lakeVars == <<lake_associations, lake_builders, lake_id, lakes>>
erosionVars == <<flux, sorted, snapshot, scale, new_heights, changed>>

-----------------------------------------------------------------------------
(* Bounds of the model *)

MaxHeight == 3
MaxSea == 1

-----------------------------------------------------------------------------
(* Meshes *)

ToMesh(adj, border) ==
    [adjacent |-> [c \in 0 .. Len(adj) - 1 |-> adj[c + 1]], border |-> border]

\* a path of three cells
Path3 == ToMesh(<< <<1>>, <<0, 2>>, <<1>> >>, {0, 2})
\* three mutually adjacent cells
Triangle3 == ToMesh(<< <<1, 2>>, <<0, 2>>, <<0, 1>> >>, {0, 1, 2})
\* a border centre with three interior leaves
Star4 == ToMesh(<< <<1, 2, 3>>, <<0>>, <<0>>, <<0>> >>, {0})
\* an interior centre with four border leaves
Star5 == ToMesh(<< <<1, 2, 3, 4>>, <<0>>, <<0>>, <<0>>, <<0>> >>, {1, 2, 3, 4})
\* an interior centre inside a ring of four border cells
Wheel5 == ToMesh(<< <<1, 2, 3, 4>>, <<0, 2, 4>>, <<0, 1, 3>>, <<0, 2, 4>>,
                    <<0, 3, 1>> >>, {1, 2, 3, 4})
\* the path 3 - 1 - 0 - 4 - 2
Chain5 == ToMesh(<< <<1, 4>>, <<0, 3>>, <<4>>, <<1>>, <<0, 2>> >>, {0})
\* the path 0 - 1 - 2 - 3 - 4 - 5
Path6 == ToMesh(<< <<1>>, <<0, 2>>, <<1, 3>>, <<2, 4>>, <<3, 5>>, <<4>> >>, {0, 5})
\* the path 1 - 2 - 4 - 0 - 3 - 5
Chain6 == ToMesh(<< <<4, 3>>, <<2>>, <<1, 4>>, <<0, 5>>, <<2, 0>>, <<3>> >>, {5})
\* two interior cells 0, 1 inside a ring of four border cells (a triangulation)
Fan6 == ToMesh(<< <<2, 3, 5, 1>>, <<0, 3, 4, 5>>, <<3, 5, 0>>, <<2, 4, 0, 1>>,
                  <<3, 5, 1>>, <<4, 2, 0, 1>> >>, {2, 3, 4, 5})

Meshes == {Path3, Triangle3, Star4, Star5, Wheel5, Chain5, Path6, Chain6, Fan6}

Cells == DOMAIN voronoi.adjacent
N == Cardinality(Cells)
Adjacent(c) == {voronoi.adjacent[c][j] : j \in 1 .. Len(voronoi.adjacent[c])}

-----------------------------------------------------------------------------
(* lakes.rs *)

LakeShorePoint(c) == [id |-> c, height |-> heights[c]]

\* ShoreGreater without the reversal of the height comparison
ShoreGreaterNotReversed(a, b) ==
    \/ a.height > b.height
    \/ a.height = b.height /\ a.id > b.id

\* Ord for LakeShorePoint: a > b
ShoreGreater(a, b) ==
    \/ a.height < b.height
    \/ a.height = b.height /\ a.id > b.id

\* BinaryHeap::peek
Peek(shores) ==
    CHOOSE s \in BagToSet(shores) :
        \A t \in BagToSet(shores) : t = s \/ ShoreGreater(s, t)

\* BinaryHeap::pop, the bag that is left
Pop(shores) == shores (-) SetToBag({Peek(shores)})

\* while shores.peek() == Some(next_shore) { shores.pop() }
DrainDuplicates(shores, next_shore) ==
    [s \in DOMAIN shores \ {next_shore} |-> shores[s]]

DefaultLakeBuilder ==
    [water_level |-> 0, area |-> 0, highest_shore_point |-> 0, shores |-> EmptyBag]

\* MergeLakes counting the point of merger twice
MergeLakesNoSubtract(keep, other, builders, assoc) ==
    LET other_lake == builders[other + 1]
        taken == [builders EXCEPT ![other + 1] = DefaultLakeBuilder]
        moved == [taken EXCEPT ![keep + 1].shores = @ (+) other_lake.shores]
    IN  [builders |-> [moved EXCEPT ![keep + 1].area = @ + other_lake.area],
         assoc |-> [c \in DOMAIN assoc |->
                        IF assoc[c] = {other} THEN {keep} ELSE assoc[c]]]

MergeLakes(keep, other, builders, assoc) ==
    LET other_lake == builders[other + 1]
        taken == [builders EXCEPT ![other + 1] = DefaultLakeBuilder]
        moved == [taken EXCEPT ![keep + 1].shores = @ (+) other_lake.shores]
    IN  [builders |-> [moved EXCEPT ![keep + 1].area = @ + other_lake.area - 1],
         assoc |-> [c \in DOMAIN assoc |->
                        IF assoc[c] = {other} THEN {keep} ELSE assoc[c]]]

\* expand_lake, the commit of next_shore to the lake
CommitShore(builder, next_shore) ==
    [builder EXCEPT !.water_level = next_shore.height,
                    !.area = @ + 1,
                    !.highest_shore_point = next_shore.id]

\* Associate forgetting the assignment
AssociateForgotten(assoc, c, lid) == assoc

\* expand_lake, lake_associations[next_shore.id] = Some(lake_id)
Associate(assoc, c, lid) == [assoc EXCEPT ![c] = {lid}]

\* CanExpandFurther stopping at a neighbour of equal height
CanExpandFurtherStrict(next_shore, lid, assoc) ==
    /\ \A n \in Adjacent(next_shore.id) :
           heights[n] > next_shore.height \/ assoc[n] = {lid}
    /\ next_shore.id \notin voronoi.border

\* expand_lake, "the lake can expand further from this point"
CanExpandFurther(next_shore, lid, assoc) ==
    /\ \A n \in Adjacent(next_shore.id) :
           heights[n] >= next_shore.height \/ assoc[n] = {lid}
    /\ next_shore.id \notin voronoi.border

RECURSIVE PushAll(_, _)
PushAll(shores, cells) ==
    IF cells = <<>> THEN shores
    ELSE PushAll(shores (+) SetToBag({LakeShorePoint(Head(cells))}), Tail(cells))

\* expand_lake, the neighbours pushed onto the lake's shore
NewShores(next_shore, lid, assoc) ==
    SelectSeq(voronoi.adjacent[next_shore.id], LAMBDA n : assoc[n] # {lid})

\* StartsLake without the sea-level test
StartsLakeNoSeaTest(c, assoc) ==
    /\ assoc[c] = {}
    /\ \A n \in Adjacent(c) : heights[n] > heights[c]

\* generate_lakes, the condition that starts a lake in cell c
StartsLake(c, assoc) ==
    /\ heights[c] > sea_level
    /\ assoc[c] = {}
    /\ \A n \in Adjacent(c) : heights[n] > heights[c]

\* generate_lakes, the Lake published for a builder
PublishLake(builder) ==
    [inflow_flux |-> 0,
     water_level |-> builder.water_level,
     area |-> builder.area,
     highest_shore_point |-> builder.highest_shore_point]

CellSeq == [j \in 1 .. N |-> j - 1]

\* generate_lakes, lake_associations.iter().flatten().map(..).collect()
PublishLakes(assoc, builders) ==
    LET some == SelectSeq(CellSeq, LAMBDA c : assoc[c] # {})
    IN  [j \in 1 .. Len(some) |->
            PublishLake(builders[(CHOOSE k \in assoc[some[j]] : TRUE) + 1])]

LakeInit ==
    /\ voronoi \in Meshes
    /\ heights \in [DOMAIN voronoi.adjacent -> 1 .. MaxHeight]
    /\ sea_level \in 0 .. MaxSea
    /\ lake_associations = [c \in DOMAIN voronoi.adjacent |-> {}]
    /\ lake_builders = <<>>
    /\ lake_id = 0
    /\ i = 0
    /\ pc = "seed"
    /\ lakes = <<>>
    /\ flux = <<>>
    /\ sorted = <<>>
    /\ snapshot = <<>>
    /\ scale = 1
    /\ new_heights = <<>>
    /\ changed = FALSE

\* one iteration of the seeding loop of generate_lakes, up to its call of expand_lake
SeedLake ==
    /\ pc = "seed"
    /\ i < N
    /\ IF StartsLake(i, lake_associations)
       THEN /\ lake_builders' = Append(lake_builders,
                   [water_level |-> heights[i],
                    area |-> 1,
                    highest_shore_point |-> i,
                    shores |-> PushAll(EmptyBag, voronoi.adjacent[i])])
            /\ lake_id' = Len(lake_builders)
            /\ lake_associations' = [lake_associations EXCEPT ![i] = {Len(lake_builders)}]
            /\ pc' = "expand"
            /\ i' = i
       ELSE /\ i' = i + 1
            /\ UNCHANGED <<lake_builders, lake_id, lake_associations, pc>>
    /\ UNCHANGED <<voronoi, heights, sea_level, lakes>>
    /\ UNCHANGED erosionVars

\* one call of expand_lake on a non-empty heap
ExpandLake ==
    /\ pc = "expand"
    /\ lake_builders[lake_id + 1].shores # EmptyBag
    /\ LET shores == lake_builders[lake_id + 1].shores
           next_shore == Peek(shores)
           drained == DrainDuplicates(Pop(shores), next_shore)
           popped == [lake_builders EXCEPT ![lake_id + 1].shores = drained]
           merged == IF lake_associations[next_shore.id] # {}
                     THEN MergeLakes(lake_id,
                                     CHOOSE o \in lake_associations[next_shore.id] : TRUE,
                                     popped, lake_associations)
                     ELSE [builders |-> popped, assoc |-> lake_associations]
           committed == [merged.builders EXCEPT
                            ![lake_id + 1] = CommitShore(@, next_shore)]
           assoc == Associate(merged.assoc, next_shore.id, lake_id)
       IN  /\ lake_associations' = assoc
           /\ IF CanExpandFurther(next_shore, lake_id, assoc)
              THEN /\ lake_builders' = [committed EXCEPT ![lake_id + 1].shores =
                          PushAll(@, NewShores(next_shore, lake_id, assoc))]
                   /\ pc' = "expand"
                   /\ i' = i
              ELSE /\ lake_builders' = committed
                   /\ pc' = "seed"
                   /\ i' = i + 1
    /\ UNCHANGED <<voronoi, heights, sea_level, lake_id, lakes>>
    /\ UNCHANGED erosionVars

\* expand_lake called on an empty heap: shores.pop().unwrap() panics
ExpandPanic ==
    /\ pc = "expand"
    /\ lake_builders[lake_id + 1].shores = EmptyBag
    /\ pc' = "panic"
    /\ UNCHANGED <<voronoi, heights, sea_level, i>>
    /\ UNCHANGED lakeVars
    /\ UNCHANGED erosionVars

\* the end of generate_lakes: publish and return
Publish ==
    /\ pc = "seed"
    /\ i = N
    /\ lakes' = PublishLakes(lake_associations, lake_builders)
    /\ pc' = "done"
    /\ UNCHANGED <<voronoi, heights, sea_level, i, lake_associations,
                   lake_builders, lake_id>>
    /\ UNCHANGED erosionVars

Next == SeedLake \/ ExpandLake \/ ExpandPanic \/ Publish

Spec == LakeInit /\ [][Next]_vars

-----------------------------------------------------------------------------
(* erosion.rs: get_flux *)

FluxMeshes == {Path3, Triangle3, Star4, Star5, Wheel5, Path6, Fan6}

\* SortedOrders with the comparison reversed: descending height
RECURSIVE SortedOrdersDescending(_)
SortedOrdersDescending(S) ==
    IF S = {} THEN {<<>>}
    ELSE UNION {{<<c>> \o o : o \in SortedOrdersDescending(S \ {c})} :
                   c \in {c \in S : \A d \in S : heights[c] >= heights[d]}}

\* the results of sorted.sort_unstable_by(height): every order of the cells
\* of S by ascending height, cells of equal height in any order
RECURSIVE SortedOrders(_)
SortedOrders(S) ==
    IF S = {} THEN {<<>>}
    ELSE UNION {{<<c>> \o o : o \in SortedOrders(S \ {c})} :
                   c \in {c \in S : \A d \in S : heights[c] <= heights[d]}}

\* get_flux, the inner loop over adjacent[k]: the first lowest of the
\* neighbours strictly lower than height, as an Option
RECURSIVE LowestFrom(_, _, _)
LowestFrom(adj, height, lowest) ==
    IF adj = <<>> THEN lowest
    ELSE LET n == Head(adj)
         IN  LowestFrom(Tail(adj), height,
                 IF heights[n] < height
                 THEN IF lowest = {} THEN {n}
                      ELSE IF \E low \in lowest : heights[n] < heights[low]
                           THEN {n} ELSE lowest
                 ELSE lowest)

Lowest(k) == LowestFrom(voronoi.adjacent[k], heights[k], {})

\* RouteFrom routing only out of cells with more than two neighbours
RouteFromWithDegreeGuard(f, k) ==
    IF Lowest(k) = {} \/ Len(voronoi.adjacent[k]) <= 2 THEN f
    ELSE LET neighbor == CHOOSE n \in Lowest(k) : TRUE
         IN  [f EXCEPT ![neighbor] = f[neighbor] + f[k] + 1]

\* get_flux, the body of the loop for cell k
RouteFrom(f, k) ==
    IF Lowest(k) = {} THEN f
    ELSE LET neighbor == CHOOSE n \in Lowest(k) : TRUE
         IN  [f EXCEPT ![neighbor] = f[neighbor] + f[k] + 1]

\* get_flux, the loop over sorted.iter().rev() from position j down
RECURSIVE RouteAll(_, _, _)
RouteAll(f, order, j) ==
    IF j = 0 THEN f ELSE RouteAll(RouteFrom(f, order[j]), order, j - 1)

FluxInit ==
    /\ voronoi \in FluxMeshes
    /\ heights \in [DOMAIN voronoi.adjacent -> 1 .. MaxHeight]
    /\ sea_level = 0
    /\ lake_associations = <<>>
    /\ lake_builders = <<>>
    /\ lake_id = 0
    /\ lakes = <<>>
    /\ i = 0
    /\ pc = "sort"
    /\ flux = [c \in DOMAIN voronoi.adjacent |-> 0]
    /\ sorted = <<>>
    /\ snapshot = <<>>
    /\ scale = 1
    /\ new_heights = <<>>
    /\ changed = FALSE

\* get_flux, the sort of the cells by height
GetFluxSort ==
    /\ pc = "sort"
    /\ sorted' \in SortedOrders(Cells)
    /\ i' = N
    /\ pc' = "route"
    /\ UNCHANGED <<voronoi, heights, sea_level, flux, snapshot, scale, new_heights, changed>>
    /\ UNCHANGED lakeVars

\* get_flux, one iteration of the loop over sorted.iter().rev()
GetFluxStep ==
    /\ pc = "route"
    /\ flux' = RouteFrom(flux, sorted[i])
    /\ i' = i - 1
    /\ pc' = IF i = 1 THEN "done" ELSE "route"
    /\ UNCHANGED <<voronoi, heights, sea_level, sorted, snapshot, scale, new_heights, changed>>
    /\ UNCHANGED lakeVars

FluxNext == GetFluxSort \/ GetFluxStep

SpecFlux == FluxInit /\ [][FluxNext]_vars

-----------------------------------------------------------------------------
(* erosion.rs: smooth.  Heights are exact rationals: heights[c] / scale and *)
(* snapshot[c] / scale.                                                     *)

SmoothMeshes == {Path3, Triangle3}

\* let alpha = 0.66, as a fraction
SmoothAlpha == [num |-> 66, den |-> 100]

\* heights[n] * (1 - alpha) + mean * alpha, in units of
\* 1 / (scale * SmoothAlpha.den * cnt), where mean = sum / cnt
Blend(x, sum, cnt) ==
    (SmoothAlpha.den - SmoothAlpha.num) * cnt * x + SmoothAlpha.num * sum

RECURSIVE SumOver(_, _)
SumOver(h, adj) == IF adj = <<>> THEN 0 ELSE h[Head(adj)] + SumOver(h, Tail(adj))

\* smooth, for n in adjacent[i] { heights[n] = heights[n] * (1 - alpha) + mean * alpha },
\* on heights already in the new units except for the cells of adj still to blend
RECURSIVE BlendNeighbours(_, _, _, _)
BlendNeighbours(h, adj, sum, cnt) ==
    IF adj = <<>> THEN h
    ELSE BlendNeighbours([h EXCEPT ![Head(adj)] = Blend(@, sum, cnt)],
                         Tail(adj), sum, cnt)

\* the factor by which one step of smooth at cell c refines the denominator
StepFactor(c) == SmoothAlpha.den * (Len(voronoi.adjacent[c]) + 1)

\* SmoothCell blending the stored height of c instead of the cloned one
SmoothCellInPlace(h, c, height) ==
    LET adj == voronoi.adjacent[c]
        cnt == Len(adj) + 1
        sum == SumOver(h, adj) + h[c]
        untouched == [d \in DOMAIN h |->
                         IF d = c \/ d \in Adjacent(c) THEN h[d] ELSE StepFactor(c) * h[d]]
    IN  BlendNeighbours([untouched EXCEPT ![c] = Blend(h[c], sum, cnt)], adj, sum, cnt)

\* smooth, the body of the loop for (c, height): heights in units of
\* 1 / scale in, in units of 1 / (scale * StepFactor(c)) out
SmoothCell(h, c, height) ==
    LET adj == voronoi.adjacent[c]
        cnt == Len(adj) + 1
        sum == SumOver(h, adj) + height
        untouched == [d \in DOMAIN h |->
                         IF d = c \/ d \in Adjacent(c) THEN h[d] ELSE StepFactor(c) * h[d]]
    IN  BlendNeighbours([untouched EXCEPT ![c] = Blend(height, sum, cnt)], adj, sum, cnt)

SmoothInit ==
    /\ voronoi \in SmoothMeshes
    /\ heights \in [DOMAIN voronoi.adjacent -> 1 .. MaxHeight]
    /\ sea_level = 0
    /\ lake_associations = <<>>
    /\ lake_builders = <<>>
    /\ lake_id = 0
    /\ lakes = <<>>
    /\ i = 0
    /\ pc = "smooth"
    /\ flux = <<>>
    /\ sorted = <<>>
    /\ snapshot = heights
    /\ scale = 1
    /\ new_heights = <<>>
    /\ changed = FALSE

\* smooth, one iteration of the loop over heights.clone()
SmoothStep ==
    /\ pc = "smooth"
    /\ heights' = SmoothCell(heights, i, snapshot[i])
    /\ snapshot' = [c \in DOMAIN snapshot |-> StepFactor(i) * snapshot[c]]
    /\ scale' = StepFactor(i) * scale
    /\ i' = i + 1
    /\ pc' = IF i + 1 = N THEN "done" ELSE "smooth"
    /\ UNCHANGED <<voronoi, sea_level, flux, sorted, new_heights, changed>>
    /\ UNCHANGED lakeVars

SmoothNext == SmoothStep

SpecSmooth == SmoothInit /\ [][SmoothNext]_vars

-----------------------------------------------------------------------------
(* erosion.rs: erode, from its call of get_flux on the smoothed heights.    *)
(* new_heights[c + 1] is in units of 1 / ErodeScale.                        *)

ErodeMeshes == {Path3, Triangle3, Star4}

\* let erosion_rate = 0.015
ErosionRate == [num |-> 15, den |-> 1000]
\* let alpha = 0.125
ErodeAlpha == [num |-> 1, den |-> 8]
\* height - erosion * 0.25
UnderwaterFactor == [num |-> 1, den |-> 4]

\* (flux + 1.).ln() in thousandths, rounded, for the fluxes of the model
LnTable == <<0, 693, 1099, 1386, 1609, 1792, 1946, 2079>>
LnDen == 10 ^ 3
PointFlux(f) == LnTable[f + 1]

ErosionDen == LnDen * ErosionRate.den
ErodeScale == ErosionDen * ErodeAlpha.den

MinOf(S) == CHOOSE x \in S : \A y \in S : x <= y
MaxOf(x, y) == IF x >= y THEN x ELSE y

\* Erosion adding the erosion instead of subtracting it
ErosionSignFlipped(c, height) ==
    LET erosion == PointFlux(flux[c]) * ErosionRate.num * height
    IN  IF height >= sea_level
        THEN LET low == MinOf({heights[n] : n \in Adjacent(c)} \cup {height})
                 eroded == height * ErosionDen + erosion
             IN  MaxOf(low * ErosionDen, eroded) * (ErodeAlpha.den - ErodeAlpha.num)
                     + eroded * ErodeAlpha.num
        ELSE height * ErodeScale
                 - erosion * UnderwaterFactor.num * (ErodeAlpha.den \div UnderwaterFactor.den)

\* erode, the closure erosion(c, height); erosion is in units of 1 / ErosionDen
Erosion(c, height) ==
    LET erosion == PointFlux(flux[c]) * ErosionRate.num * height
    IN  IF height >= sea_level
        THEN LET low == MinOf({heights[n] : n \in Adjacent(c)} \cup {height})
                 eroded == height * ErosionDen - erosion
             IN  MaxOf(low * ErosionDen, eroded) * (ErodeAlpha.den - ErodeAlpha.num)
                     + eroded * ErodeAlpha.num
        ELSE height * ErodeScale
                 - erosion * UnderwaterFactor.num * (ErodeAlpha.den \div UnderwaterFactor.den)

ErodeInit ==
    /\ voronoi \in ErodeMeshes
    /\ heights \in [DOMAIN voronoi.adjacent -> (0 - MaxHeight) .. MaxHeight]
    /\ sea_level \in (0 - MaxSea) .. MaxSea
    /\ lake_associations = <<>>
    /\ lake_builders = <<>>
    /\ lake_id = 0
    /\ lakes = <<>>
    /\ i = 0
    /\ pc = "flux"
    /\ flux = <<>>
    /\ sorted = <<>>
    /\ snapshot = <<>>
    /\ scale = 1
    /\ new_heights = <<>>
    /\ changed = FALSE

\* erode, let flux = get_flux(&heights, adjacent)
ErodeFlux ==
    /\ pc = "flux"
    /\ \E order \in SortedOrders(Cells) :
           flux' = RouteAll([c \in Cells |-> 0], order, N)
    /\ pc' = "erode"
    /\ UNCHANGED <<voronoi, heights, sea_level, i, sorted, snapshot, scale, new_heights, changed>>
    /\ UNCHANGED lakeVars

\* erode, heights.into_iter().enumerate().map(erosion) for one cell
ErodeCell ==
    /\ pc = "erode"
    /\ new_heights' = Append(new_heights, Erosion(i, heights[i]))
    /\ i' = i + 1
    /\ pc' = IF i + 1 = N THEN "done" ELSE "erode"
    /\ UNCHANGED <<voronoi, heights, sea_level, flux, sorted, snapshot, scale, changed>>
    /\ UNCHANGED lakeVars

ErodeNext == ErodeFlux \/ ErodeCell

SpecErode == ErodeInit /\ [][ErodeNext]_vars

-----------------------------------------------------------------------------
(* erosion.rs: fill_sinks.  Heights are in units of half an epsilon, so that *)
(* heights closer than epsilon, at epsilon and further apart all occur.      *)

FillMeshes == {Path3, Triangle3, Star4, Star5, Wheel5, Chain5}

\* let epsilon = 1e-5, in units of half an epsilon
Epsilon == 2

\* f64::INFINITY: above every finite height of the model
Infinity == 10 ^ 6

\* new_heights[neighbor] + epsilon
PlusEpsilon(x) == IF x = Infinity THEN Infinity ELSE x + Epsilon

\* fill_sinks, the initial new_heights
InitialFill ==
    [c \in Cells |-> IF heights[c] > sea_level THEN Infinity ELSE heights[c]]

\* FillNeighbours lowering a cell to a value it already has
RECURSIVE FillNeighboursNotStrict(_, _, _, _, _)
FillNeighboursNotStrict(nh, c, height, adj, ch) ==
    IF adj = <<>> THEN [heights |-> nh, changed |-> ch]
    ELSE LET other == PlusEpsilon(nh[Head(adj)])
         IN  IF height >= other
             THEN [heights |-> [nh EXCEPT ![c] = height], changed |-> TRUE]
             ELSE IF nh[c] >= other /\ other > height
                  THEN FillNeighboursNotStrict([nh EXCEPT ![c] = other], c, height,
                                               Tail(adj), TRUE)
                  ELSE FillNeighboursNotStrict(nh, c, height, Tail(adj), ch)

\* fill_sinks, the loop over the neighbours of cell c, with its break
RECURSIVE FillNeighbours(_, _, _, _, _)
FillNeighbours(nh, c, height, adj, ch) ==
    IF adj = <<>> THEN [heights |-> nh, changed |-> ch]
    ELSE LET other == PlusEpsilon(nh[Head(adj)])
         IN  IF height >= other
             THEN [heights |-> [nh EXCEPT ![c] = height], changed |-> TRUE]
             ELSE IF nh[c] > other /\ other > height
                  THEN FillNeighbours([nh EXCEPT ![c] = other], c, height,
                                      Tail(adj), TRUE)
                  ELSE FillNeighbours(nh, c, height, Tail(adj), ch)

\* fill_sinks, the body of the for loop for (c, height)
FillCell(nh, c, height, ch) ==
    IF nh[c] = height THEN [heights |-> nh, changed |-> ch]
    ELSE FillNeighbours(nh, c, height, voronoi.adjacent[c], ch)

FillInit ==
    /\ voronoi \in FillMeshes
    /\ heights \in [DOMAIN voronoi.adjacent -> 1 .. MaxHeight]
    /\ sea_level \in 0 .. MaxSea
    /\ lake_associations = <<>>
    /\ lake_builders = <<>>
    /\ lake_id = 0
    /\ lakes = <<>>
    /\ i = 0
    /\ pc = "sort"
    /\ flux = <<>>
    /\ sorted = <<>>
    /\ snapshot = <<>>
    /\ scale = 1
    /\ new_heights = <<>>
    /\ changed = FALSE

\* fill_sinks, up to the while loop: new_heights, sorted, changed = true
FillSinksSort ==
    /\ pc = "sort"
    /\ new_heights' = InitialFill
    /\ sorted' \in SortedOrders(Cells)
    /\ changed' = TRUE
    /\ pc' = "while"
    /\ UNCHANGED <<voronoi, heights, sea_level, i, flux, snapshot, scale>>
    /\ UNCHANGED lakeVars

\* fill_sinks, the test of while changed: start a pass or return new_heights
FillSinksWhile ==
    /\ pc = "while"
    /\ IF changed
       THEN /\ changed' = FALSE
            /\ i' = 1
            /\ pc' = "for"
       ELSE /\ pc' = "done"
            /\ UNCHANGED <<changed, i>>
    /\ UNCHANGED <<voronoi, heights, sea_level, flux, sorted, snapshot, scale,
                   new_heights>>
    /\ UNCHANGED lakeVars

\* fill_sinks, one iteration of the for loop over sorted.iter()
FillSinksCell ==
    /\ pc = "for"
    /\ LET r == FillCell(new_heights, sorted[i], heights[sorted[i]], changed)
       IN  /\ new_heights' = r.heights
           /\ changed' = r.changed
    /\ i' = i + 1
    /\ pc' = IF i = N THEN "while" ELSE "for"
    /\ UNCHANGED <<voronoi, heights, sea_level, flux, sorted, snapshot, scale>>
    /\ UNCHANGED lakeVars

FillNext == FillSinksSort \/ FillSinksWhile \/ FillSinksCell

\* fill_sinks runs on the caller's thread until it returns
SpecFill == FillInit /\ [][FillNext]_vars /\ WF_vars(FillNext)

-----------------------------------------------------------------------------
(* Properties of get_flux, smooth and erode *)

HasLowerNeighbour(k) == \E n \in Adjacent(k) : heights[n] < heights[k]

\* a path 0 - 1 - .. - N-1 whose heights strictly descend along the path
DescendingPath ==
    /\ \A c \in Cells : Adjacent(c) = {c - 1, c + 1} \cap Cells
    /\ \A c \in Cells : c + 1 \in Cells => heights[c] > heights[c + 1]

RECURSIVE DescentPasses(_, _)
DescentPasses(j, c) ==
    \/ j = c
    \/ \E d \in Adjacent(j) :
           /\ heights[d] < heights[j]
           /\ \A n \in Adjacent(j) : heights[d] <= heights[n]
           /\ \A m \in 1 .. Len(voronoi.adjacent[j]) :
                  heights[voronoi.adjacent[j][m]] = heights[d]
                      => \E q \in 1 .. m : voronoi.adjacent[j][q] = d
           /\ DescentPasses(d, c)

\* C11: a step of get_flux changes the flux of no cell that was processed
\* before or is processed in this step, so F[p] is final when p contributes,
\* for every order among cells of equal height; the returned F[c] is the
\* number of other cells whose steepest-descent path passes through c
C11_FluxFinalWhenRouted ==
    /\ [][pc = "route" =>
            \A j \in i .. N : flux'[sorted[j]] = flux[sorted[j]]]_vars
    /\ [](pc = "done" =>
            \A c \in Cells :
                flux[c] = Cardinality({j \in Cells \ {c} : DescentPasses(j, c)}))

\* get_flux returned a flux of at least two at a cell, on heights with a tie
\* and with a cell that received flux and passed it on
C11_Witness ==
    /\ pc = "done"
    /\ \E c \in Cells : flux[c] >= 2
    /\ \E c, d \in Cells : c # d /\ heights[c] = heights[d]
    /\ \E c \in Cells : flux[c] >= 1 /\ HasLowerNeighbour(c)

\* C12: fill_sinks returns, and on return every cell at or below sea level
\* has its input height and every other cell a height of at least its input
\* height
C12_FillSinksTerminates ==
    /\ <>(pc = "done")
    /\ [](pc = "done" =>
            \A c \in Cells :
                IF heights[c] <= sea_level
                THEN new_heights[c] = heights[c]
                ELSE new_heights[c] >= heights[c])

\* fill_sinks returned with a sea cell, a land cell it left at its input
\* height and a land cell it raised to a finite height
C12_Witness ==
    /\ pc = "done"
    /\ \E c \in Cells : heights[c] <= sea_level
    /\ \E c \in Cells : heights[c] > sea_level /\ new_heights[c] = heights[c]
    /\ \E c \in Cells :
           /\ heights[c] > sea_level
           /\ new_heights[c] > heights[c]
           /\ new_heights[c] < Infinity

RECURSIVE TotalUpTo(_, _)
TotalUpTo(h, n) == IF n = 0 THEN 0 ELSE h[n - 1] + TotalUpTo(h, n - 1)

\* the sum of a height field over all cells
Total(h) == TotalUpTo(h, N)

\* C8 as stated: smooth preserves the sum of the height field
C8_Original ==
    pc = "done" => Total(heights) = Total(snapshot)

\* C8 as amended: the step of smooth for cell i changes the sum of the height
\* field by exactly (input height of i - stored height of i), so that it
\* preserves the sum iff no earlier step changed the stored height of i
C8_StepChangesSumByOverwrite ==
    [][pc = "smooth" =>
           Total(heights') =
               (scale' \div scale) * (Total(heights) + snapshot[i] - heights[i])]_vars

\* smooth returned a height field whose sum differs from the sum of its input
C8_Witness ==
    /\ pc = "done"
    /\ Total(heights) # Total(snapshot)

\* C9 as stated: a land cell with a positive flux term is never raised
C9_Original ==
    \A c \in Cells :
        (c < Len(new_heights) /\ PointFlux(flux[c]) > 0 /\ heights[c] >= sea_level)
            => new_heights[c + 1] <= heights[c] * ErodeScale

\* C9 as amended: a land cell of non-negative height with a positive flux
\* term is never raised
C9_NonNegativeLandNotRaised ==
    \A c \in Cells :
        (c < Len(new_heights) /\ PointFlux(flux[c]) > 0 /\ heights[c] >= sea_level
            /\ heights[c] >= 0)
            => new_heights[c + 1] <= heights[c] * ErodeScale

\* erode lowered a land cell of positive height with a positive flux term,
\* above a negative sea level
C9_Witness ==
    \E c \in Cells :
        /\ c < Len(new_heights)
        /\ PointFlux(flux[c]) > 0
        /\ sea_level < 0
        /\ heights[c] > 0
        /\ new_heights[c + 1] < heights[c] * ErodeScale

-----------------------------------------------------------------------------
(* Properties of generate_lakes *)

\* the ids of the lakes some cell is associated with
SurvivingLakes == UNION {lake_associations[c] : c \in Cells}

\* the ids of the lakes that were merged into another lake
DissolvedLakes == (0 .. Len(lake_builders) - 1) \ SurvivingLakes

Members(k) == {c \in Cells : lake_associations[c] = {k}}

\* the position in the returned Vec<Lake> of the record published for cell c
Rank(c) == Cardinality({d \in Cells : d <= c /\ lake_associations[d] # {}})

C2_NoSeaCellInLake ==
    pc = "done" =>
        \A c \in Cells : heights[c] <= sea_level => lake_associations[c] = {}

\* generate_lakes returned and a cell at or below sea level is a neighbour of
\* a lake cell
C2_Witness ==
    /\ pc = "done"
    /\ \E c \in Cells : \E n \in Adjacent(c) :
           heights[c] <= sea_level /\ lake_associations[n] # {}

\* the spill point of lake k has a strictly lower neighbour outside the lake
HasDownhillExit(k) ==
    LET b == lake_builders[k + 1]
    IN  \E n \in Adjacent(b.highest_shore_point) :
            heights[n] < b.water_level /\ lake_associations[n] # {k}

\* C3 as stated: the spill point has the water level's height and a neighbour
\* that is a downhill exit or lies on the map border
C3_Original ==
    pc = "done" =>
        \A k \in SurvivingLakes :
            LET b == lake_builders[k + 1]
            IN  /\ heights[b.highest_shore_point] = b.water_level
                /\ \/ HasDownhillExit(k)
                   \/ Adjacent(b.highest_shore_point) \cap voronoi.border # {}

\* C3 as amended: the spill point has the water level's height and has a
\* neighbour that is a downhill exit, or lies on the map border itself
C3_SpillPoint ==
    pc = "done" =>
        \A k \in SurvivingLakes :
            LET b == lake_builders[k + 1]
            IN  /\ heights[b.highest_shore_point] = b.water_level
                /\ \/ HasDownhillExit(k)
                   \/ b.highest_shore_point \in voronoi.border

\* generate_lakes returned with a lake that stopped at a border cell without
\* a downhill exit, and with a lake that stopped off the border
C3_Witness ==
    /\ pc = "done"
    /\ \E k \in SurvivingLakes :
           /\ lake_builders[k + 1].highest_shore_point \in voronoi.border
           /\ ~HasDownhillExit(k)
    /\ \E k \in SurvivingLakes :
           /\ lake_builders[k + 1].highest_shore_point \notin voronoi.border
           /\ HasDownhillExit(k)

\* C4: the returned Vec<Lake> has one entry per cell, and the entry of a lake
\* cell is the record of its lake with inflow_flux = 0
C4_PublishedParallel ==
    pc = "done" =>
        /\ Len(lakes) = N
        /\ \A c \in Cells : \A k \in lake_associations[c] :
               lakes[c + 1] = PublishLake(lake_builders[k + 1])

\* C5: two published records with the same highest_shore_point are equal and
\* belong to cells of the same lake; no two surviving lakes share a
\* highest_shore_point, in any state
C5_SameShorePointSameLake ==
    /\ \A k, j \in SurvivingLakes :
           lake_builders[k + 1].highest_shore_point
               = lake_builders[j + 1].highest_shore_point => k = j
    /\ pc = "done" =>
           \A c, d \in {e \in Cells : lake_associations[e] # {}} :
               lakes[Rank(c)].highest_shore_point = lakes[Rank(d)].highest_shore_point
                   => /\ lakes[Rank(c)] = lakes[Rank(d)]
                      /\ lake_associations[c] = lake_associations[d]

\* generate_lakes returned two lakes, one of which absorbed another lake
C5_Witness ==
    /\ pc = "done"
    /\ Cardinality(SurvivingLakes) >= 2
    /\ DissolvedLakes # {}

\* the cells reachable from the cells of r
RECURSIVE Reach(_)
Reach(r) ==
    LET more == r \cup UNION {Adjacent(c) : c \in r}
    IN  IF more = r THEN r ELSE Reach(more)

\* a connected mesh with symmetric adjacency and a border cell
ConnectedMeshWithBorder ==
    /\ \A c \in Cells : \A n \in Adjacent(c) : n \in Cells /\ c \in Adjacent(n)
    /\ Reach({0}) = Cells
    /\ voronoi.border # {}

\* C6: on a connected, symmetric mesh with a border cell expand_lake never
\* pops from an empty heap
C6_NeverPopsEmptyHeap ==
    ConnectedMeshWithBorder => pc # "panic"

\* C10: after every commit of expand_lake the area of every surviving lake is
\* the number of its cells, and so is every published area
C10_AreaIsMemberCount ==
    /\ \A k \in SurvivingLakes :
           lake_builders[k + 1].area = Cardinality(Members(k))
    /\ pc = "done" =>
           \A c \in Cells : \A k \in lake_associations[c] :
               lakes[Rank(c)].area = Cardinality(Members(k))

\* a lake that absorbed another lake is about to commit a shore cell that
\* already belongs to it
C10_Witness ==
    /\ pc = "expand"
    /\ DissolvedLakes # {}
    /\ lake_builders[lake_id + 1].shores # EmptyBag
    /\ lake_associations[Peek(lake_builders[lake_id + 1].shores).id] = {lake_id}
    /\ lake_builders[lake_id + 1].area >= 3

=============================================================================
